---- MODULE Spec2Model ----
(***************************************************************************)
(* A model of the tutorial programs of this repository:                    *)
(*   src/main.rs                      divide (i32)                          *)
(*   examples/structs_and_methods.rs  BankAccount (f64 balance)             *)
(*   examples/enums_and_matching.rs   divide (i32)                          *)
(*   examples/error_handling.rs       Database, read_age_from_file,         *)
(*                                    process_number, main                  *)
(*   examples/collections.rs          Vec push/pop, HashMap insert/get      *)
(* Every file is an independent executable with no shared state, so a      *)
(* behaviour runs exactly one of them; the variable `example` records      *)
(* which one.                                                               *)
(***************************************************************************)
EXTENDS Integers, Sequences, FiniteSets, TLC

VARIABLES
    example,    \* which example program this behaviour runs
    account,    \* the BankAccount: [account_number, owner, balance]
    bankLast,   \* the last BankAccount call: [op, amount, before, ret, value]
    bankArgs,   \* ghost: "clean" while no NaN amount was ever passed, else "nan"
    divLast,    \* the last divide call: [a, b, main, enums]
    db,         \* the Database: [connected]
    dbHist,     \* the Database calls made so far: [op, sql, ret] each
    mainPc,     \* error_handling main: the statement it is at
    mainOut,    \* error_handling main: the success/failure markers printed
    ra,         \* the read_age_from_file call: [pc, contents, age, ran, ret]
    pn,         \* the process_number call: [pc, input, n, ran, ret]
    vec,        \* the Vec of collections.rs
    vecHist,    \* the Vec calls made so far: [op, x, ret, before, after] each
    map,        \* the HashMap of collections.rs, a function on its keys
    mapHist,    \* the HashMap calls made so far: [op, k, v, ret, before, after]
    hset,       \* the HashSet of collections.rs
    setHist,    \* the HashSet calls made so far: [op, x, ret, before, after]
    wc,         \* the word counter: [pc, text, rest, counts]
    pipe,       \* the iterator chain: [pc, mode, numbers, pos, left, acc, kept]
    lightLast,  \* the last TrafficLight asked: [light, go, time]
    ageLast,    \* the last parse_age call: [input, ret]
    csLast,     \* the last ConnectionState asked: [asked, state, connected]
    emailLast,  \* the last validate_email call: [email, ret]
    unLast      \* the last read_username calls: [called, open, read, short, verbose]

bankVars == <<account, bankLast, bankArgs>>
divVars == <<divLast>>
dbVars == <<db, dbHist>>
mainVars == <<mainPc, mainOut>>
chainVars == <<ra, pn>>
collVars == <<vec, vecHist, map, mapHist>>
earlyVars == <<bankVars, divVars, dbVars, mainVars, chainVars, collVars>>
lateVars == <<hset, setHist, wc, pipe, lightLast, ageLast, csLast, emailLast, unLast>>

(***************************************************************************)
(* Bounds of the model.                                                    *)
(***************************************************************************)
\* bits of the f64 significand kept by the model (53 in the real format)
MantBits == 2
\* largest exponent of the f64 model, counted from the least subnormal
MaxExp == 2
\* bits of the i32 model (32 in the real type)
I32Bits == 4
\* calls a caller makes on one Database
MaxDbCalls == 5
\* bits of the u32 model (32 in the real type)
U32Bits == 8
\* longest file contents / input string
MaxStrLen == 3
\* calls a caller makes on one Vec
MaxVecCalls == 4
\* calls a caller makes on one HashMap
MaxMapCalls == 3
\* characters of a text given to the word counter
MaxTextLen == 4
\* elements of a vector given to an iterator chain
MaxPipeLen == 4
\* largest magnitude of such an element
MaxElem == 2
\* characters of an email given to validate_email
MaxEmailLen == 5
\* calls a caller makes on one HashSet
MaxSetCalls == 3

RECURSIVE Pow2(_)
Pow2(n) == IF n = 0 THEN 1 ELSE 2 * Pow2(n - 1)

(***************************************************************************)
(* f64.  A value is NaN, an infinity, or a finite number m * 2^e counted   *)
(* in units of the least subnormal, with m < 2^MantBits and e <= MaxExp;   *)
(* arithmetic rounds to nearest, ties to even, and overflows to infinity,  *)
(* as IEEE 754 binary64 does.  -0.0 is left out: it compares equal to 0.0  *)
(* in every comparison the code makes and no operation of the code         *)
(* produces it.                                                            *)
(***************************************************************************)
NaN == [k |-> "nan", v |-> 0]
PosInf == [k |-> "inf", v |-> 1]
NegInf == [k |-> "inf", v |-> -1]
Fin(n) == [k |-> "fin", v |-> n]
Zero == Fin(0)

MaxFinite == (Pow2(MantBits) - 1) * Pow2(MaxExp)

FinMags == {m * Pow2(e) : m \in 0..(Pow2(MantBits) - 1), e \in 0..MaxExp}

F64 == {Fin(n) : n \in FinMags} \cup {Fin(-n) : n \in FinMags}
         \cup {NaN, PosInf, NegInf}

IsNaN(x) == x.k = "nan"
IsFinite(x) == x.k = "fin"

\* the position of a non-NaN value on the extended real line
Key(x) == IF x.k = "inf" THEN x.v * (2 * MaxFinite + 1) ELSE x.v

\* the comparison operators of f64: every comparison with NaN is false
FGt(x, y) == ~IsNaN(x) /\ ~IsNaN(y) /\ Key(x) > Key(y)
FLe(x, y) == ~IsNaN(x) /\ ~IsNaN(y) /\ Key(x) <= Key(y)
FLt(x, y) == ~IsNaN(x) /\ ~IsNaN(y) /\ Key(x) < Key(y)
FGe(x, y) == ~IsNaN(x) /\ ~IsNaN(y) /\ Key(x) >= Key(y)

\* the exponent of the binade that holds the magnitude n
RECURSIVE ExpOf(_, _)
ExpOf(n, e) == IF n < Pow2(MantBits + e) THEN e ELSE ExpOf(n, e + 1)

\* round the exact magnitude n >= 0 to nearest, ties to even
RoundMag(n) ==
    LET u == Pow2(ExpOf(n, 0))
        q == n \div u
        r == n % u
        rq == IF 2 * r < u THEN q
              ELSE IF 2 * r > u THEN q + 1
              ELSE IF q % 2 = 0 THEN q ELSE q + 1
    IN rq * u

\* the f64 nearest to the exact value n; beyond MaxFinite it is an infinity
RoundF(n) ==
    LET mag == RoundMag(IF n < 0 THEN -n ELSE n)
    IN IF mag > MaxFinite THEN (IF n < 0 THEN NegInf ELSE PosInf)
       ELSE Fin(IF n < 0 THEN -mag ELSE mag)

FNeg(x) == IF IsNaN(x) THEN NaN ELSE [x EXCEPT !.v = -(x.v)]

\* x + y on f64
FAdd(x, y) ==
    IF IsNaN(x) \/ IsNaN(y) THEN NaN
    ELSE IF x.k = "inf" /\ y.k = "inf" THEN (IF x.v = y.v THEN x ELSE NaN)
    ELSE IF x.k = "inf" THEN x
    ELSE IF y.k = "inf" THEN y
    ELSE RoundF(x.v + y.v)

\* x - y on f64
FSub(x, y) == FAdd(x, FNeg(y))

(***************************************************************************)
(* BankAccount (examples/structs_and_methods.rs).                          *)
(***************************************************************************)
BankAccount_new(account_number, owner) ==
    [account_number |-> account_number, owner |-> owner, balance |-> Zero]

deposit(self, amount) ==
    IF FGt(amount, Zero)
    THEN [self EXCEPT !.balance = FAdd(self.balance, amount)]
    ELSE self

\* mutant: a withdraw that debits the account before it checks the funds
withdraw_debits_first(self, amount) ==
    IF FLe(amount, Zero)
    THEN [self |-> self, ret |-> "Err: Amount must be positive"]
    ELSE [self |-> [self EXCEPT !.balance = FSub(self.balance, amount)],
          ret |-> IF FGt(amount, self.balance)
                  THEN "Err: Insufficient funds" ELSE "Ok"]

withdraw(self, amount) ==
    IF FLe(amount, Zero)
    THEN [self |-> self, ret |-> "Err: Amount must be positive"]
    ELSE IF FGt(amount, self.balance)
    THEN [self |-> self, ret |-> "Err: Insufficient funds"]
    ELSE [self |-> [self EXCEPT !.balance = FSub(self.balance, amount)],
          ret |-> "Ok"]

get_balance(self) == self.balance

NoBankCall == [op |-> "none", amount |-> Zero,
               before |-> BankAccount_new("123456", "Alice"), ret |-> "none",
               value |-> Zero]

InitBank ==
    /\ account = BankAccount_new("123456", "Alice")
    /\ bankLast = NoBankCall
    /\ bankArgs = "clean"

SawArg(amount) == IF IsNaN(amount) THEN "nan" ELSE bankArgs

Deposit ==
    /\ example = "bank"
    /\ \E amount \in F64 :
        /\ account' = deposit(account, amount)
        /\ bankLast' = [op |-> "deposit", amount |-> amount,
                        before |-> account, ret |-> "unit", value |-> Zero]
        /\ bankArgs' = SawArg(amount)
    /\ UNCHANGED <<example, lateVars, divVars, dbVars, mainVars, chainVars, collVars>>

Withdraw ==
    /\ example = "bank"
    /\ \E amount \in F64 :
        LET r == withdraw(account, amount) IN
        /\ account' = r.self
        /\ bankLast' = [op |-> "withdraw", amount |-> amount,
                        before |-> account, ret |-> r.ret, value |-> Zero]
        /\ bankArgs' = SawArg(amount)
    /\ UNCHANGED <<example, lateVars, divVars, dbVars, mainVars, chainVars, collVars>>

GetBalance ==
    /\ example = "bank"
    /\ account' = account
    /\ bankLast' = [op |-> "get_balance", amount |-> Zero,
                    before |-> account, ret |-> "f64",
                    value |-> get_balance(account)]
    /\ UNCHANGED <<example, lateVars, bankArgs, divVars, dbVars, mainVars, chainVars, collVars>>

(***************************************************************************)
(* i32 and the two integer divide functions (src/main.rs,                  *)
(* examples/enums_and_matching.rs).                                        *)
(***************************************************************************)
I32_MIN == -Pow2(I32Bits - 1)
I32_MAX == Pow2(I32Bits - 1) - 1
I32 == I32_MIN..I32_MAX

Abs(n) == IF n < 0 THEN -n ELSE n

\* the mathematical quotient truncated toward zero (b # 0)
TruncDiv(a, b) ==
    IF (a < 0) = (b < 0) THEN Abs(a) \div Abs(b) ELSE -(Abs(a) \div Abs(b))

None == [tag |-> "None", v |-> 0]
Some(x) == [tag |-> "Some", v |-> x]
Panic == [tag |-> "panic", v |-> 0]

\* the `/` operator of i32: it panics on a zero divisor and when the
\* quotient does not fit (i32::MIN / -1), in debug and in release builds
I32Div(a, b) ==
    IF b = 0 THEN Panic
    ELSE IF TruncDiv(a, b) > I32_MAX \/ TruncDiv(a, b) < I32_MIN THEN Panic
    ELSE Some(TruncDiv(a, b))

\* src/main.rs
divide_main(dividend, divisor) ==
    IF divisor = 0 THEN None ELSE I32Div(dividend, divisor)

\* examples/enums_and_matching.rs
divide_enums(a, b) ==
    IF b = 0 THEN None ELSE I32Div(a, b)

NoDivCall == [a |-> 0, b |-> 0, main |-> None, enums |-> None, called |-> FALSE]

InitDivide == divLast = NoDivCall

Divide ==
    /\ example = "divide"
    /\ \E a \in I32, b \in I32 :
        divLast' = [a |-> a, b |-> b, main |-> divide_main(a, b),
                    enums |-> divide_enums(a, b), called |-> TRUE]
    /\ UNCHANGED <<example, lateVars, bankVars, dbVars, mainVars, chainVars, collVars>>

(***************************************************************************)
(* Database (examples/error_handling.rs).  A query string is modelled by   *)
(* its text; is_empty() is equality with the empty string.                 *)
(***************************************************************************)
Database_new == [connected |-> FALSE]

\* mutant: a connect that reports Ok without setting the flag
connect_leaves_flag(self) ==
    [self |-> self, ret |-> "Ok"]

connect(self) ==
    [self |-> [self EXCEPT !.connected = TRUE], ret |-> "Ok"]

\* mutant: a query that looks at the sql before it looks at the connection
query_checks_sql_first(self, sql) ==
    IF sql = ""
    THEN [self |-> self, ret |-> "Err: Empty query"]
    ELSE IF ~self.connected
    THEN [self |-> self, ret |-> "Err: Not connected to database"]
    ELSE [self |-> self, ret |-> "Ok"]

query(self, sql) ==
    IF ~self.connected
    THEN [self |-> self, ret |-> "Err: Not connected to database"]
    ELSE IF sql = ""
    THEN [self |-> self, ret |-> "Err: Empty query"]
    ELSE [self |-> self, ret |-> "Ok"]

\* mutant: a disconnect that reports Ok without clearing the flag
disconnect_leaves_flag(self) ==
    IF ~self.connected
    THEN [self |-> self, ret |-> "Err: Already disconnected"]
    ELSE [self |-> self, ret |-> "Ok"]

disconnect(self) ==
    IF ~self.connected
    THEN [self |-> self, ret |-> "Err: Already disconnected"]
    ELSE [self |-> [self EXCEPT !.connected = FALSE], ret |-> "Ok"]

Sqls == {"", "SELECT * FROM users"}

InitDb ==
    /\ db = Database_new
    /\ dbHist = <<>>

\* one call on db, recorded in dbHist
DbCall(op, sql) ==
    LET r == CASE op = "connect" -> connect(db)
               [] op = "query" -> query(db, sql)
               [] op = "disconnect" -> disconnect(db)
    IN /\ db' = r.self
       /\ dbHist' = Append(dbHist, [op |-> op, sql |-> sql, ret |-> r.ret])

\* the result of the call just made by DbCall
LastRet == dbHist'[Len(dbHist')].ret

Connect ==
    /\ example = "database"
    /\ Len(dbHist) < MaxDbCalls
    /\ DbCall("connect", "")
    /\ UNCHANGED <<example, lateVars, bankVars, divVars, mainVars, chainVars, collVars>>

Query ==
    /\ example = "database"
    /\ Len(dbHist) < MaxDbCalls
    /\ \E sql \in Sqls : DbCall("query", sql)
    /\ UNCHANGED <<example, lateVars, bankVars, divVars, mainVars, chainVars, collVars>>

Disconnect ==
    /\ example = "database"
    /\ Len(dbHist) < MaxDbCalls
    /\ DbCall("disconnect", "")
    /\ UNCHANGED <<example, lateVars, bankVars, divVars, mainVars, chainVars, collVars>>

(***************************************************************************)
(* main of examples/error_handling.rs, one step per numbered section; the  *)
(* Database section (5) is one step per call.  Sections 1-4 and 6-9 only   *)
(* match on their results or substitute defaults, so each prints its lines *)
(* and falls through to the next.                                          *)
(***************************************************************************)
MainSections ==
    <<"1_basic_result", "2_custom_errors", "3_file_reading", "4_validation",
      "5_query_before", "5_connect", "5_query_after", "5_disconnect",
      "6_chaining", "7_defaults", "8_result_methods", "9_strategies", "done">>

\* the statement after the one at pc
MainAfter(pc) ==
    LET i == CHOOSE j \in DOMAIN MainSections : MainSections[j] = pc
    IN MainSections[i + 1]

\* Result::expect: the value on Ok, a panic on Err
expect(ret, next) == IF ret = "Ok" THEN next ELSE "panicked"

\* the marker a match on a Result prints
Marker(ret) == IF ret = "Ok" THEN "ok" ELSE "fail"

InitMain ==
    /\ mainPc = MainSections[1]
    /\ mainOut = <<>>

\* sections that use no Database
MainSection ==
    /\ example = "main"
    /\ mainPc \in {"1_basic_result", "2_custom_errors", "4_validation", "6_chaining",
                   "7_defaults", "8_result_methods", "9_strategies"}
    /\ mainPc' = MainAfter(mainPc)
    /\ mainOut' = Append(mainOut, mainPc)
    /\ UNCHANGED <<example, lateVars, bankVars, divVars, dbVars, chainVars, collVars>>

\* match read_username_from_file("nonexistent.txt"): the file system decides
MainFileReading ==
    /\ example = "main"
    /\ mainPc = "3_file_reading"
    /\ \E ret \in {"Ok", "Err: io"} : mainOut' = Append(mainOut, Marker(ret))
    /\ mainPc' = MainAfter(mainPc)
    /\ UNCHANGED <<example, lateVars, bankVars, divVars, dbVars, chainVars, collVars>>

\* match db.query("SELECT * FROM users") { Ok => print, Err => print }
MainQuery ==
    /\ example = "main"
    /\ mainPc \in {"5_query_before", "5_query_after"}
    /\ DbCall("query", "SELECT * FROM users")
    /\ mainOut' = Append(mainOut, Marker(LastRet))
    /\ mainPc' = MainAfter(mainPc)
    /\ UNCHANGED <<example, lateVars, bankVars, divVars, chainVars, collVars>>

\* db.connect().expect("Failed to connect")
MainConnect ==
    /\ example = "main"
    /\ mainPc = "5_connect"
    /\ DbCall("connect", "")
    /\ mainPc' = expect(LastRet, MainAfter(mainPc))
    /\ UNCHANGED <<example, lateVars, bankVars, divVars, mainOut, chainVars, collVars>>

\* db.disconnect().expect("Failed to disconnect")
MainDisconnect ==
    /\ example = "main"
    /\ mainPc = "5_disconnect"
    /\ DbCall("disconnect", "")
    /\ mainPc' = expect(LastRet, MainAfter(mainPc))
    /\ UNCHANGED <<example, lateVars, bankVars, divVars, mainOut, chainVars, collVars>>

MainNext ==
    \/ MainSection
    \/ MainFileReading
    \/ MainQuery
    \/ MainConnect
    \/ MainDisconnect

(***************************************************************************)
(* Strings are sequences of characters; str::trim and str::parse are       *)
(* computed on them the way the standard library does.                     *)
(***************************************************************************)
Chars == {"1", "5", "9", "+", "-", " ", "a"}

RECURSIVE StringsUpTo(_)
StringsUpTo(n) ==
    IF n = 0 THEN {<<>>}
    ELSE LET shorter == StringsUpTo(n - 1)
         IN shorter \cup {Append(t, c) : t \in shorter, c \in Chars}

Strings == StringsUpTo(MaxStrLen)

IsWhitespace(c) == c = " "

DigitVal ==
    [c \in {"0", "1", "2", "3", "4", "5", "6", "7", "8", "9"} |->
        CASE c = "0" -> 0 [] c = "1" -> 1 [] c = "2" -> 2 [] c = "3" -> 3
          [] c = "4" -> 4 [] c = "5" -> 5 [] c = "6" -> 6 [] c = "7" -> 7
          [] c = "8" -> 8 [] c = "9" -> 9]

RECURSIVE TrimStart(_)
TrimStart(t) ==
    IF t # <<>> /\ IsWhitespace(Head(t)) THEN TrimStart(Tail(t)) ELSE t

RECURSIVE TrimEnd(_)
TrimEnd(t) ==
    IF t # <<>> /\ IsWhitespace(t[Len(t)])
    THEN TrimEnd(SubSeq(t, 1, Len(t) - 1)) ELSE t

trim(t) == TrimEnd(TrimStart(t))

ParseOk(n) == [ok |-> TRUE, v |-> n, err |-> "none"]
ParseErr(kind) == [ok |-> FALSE, v |-> 0, err |-> kind]

\* the digit loop of from_str_radix: left to right, the first error wins
RECURSIVE ParseDigits(_, _, _, _, _)
ParseDigits(digits, acc, positive, lo, hi) ==
    IF digits = <<>> THEN ParseOk(acc)
    ELSE IF Head(digits) \notin DOMAIN DigitVal THEN ParseErr("InvalidDigit")
    ELSE LET n == IF positive THEN acc * 10 + DigitVal[Head(digits)]
                  ELSE acc * 10 - DigitVal[Head(digits)]
         IN IF n > hi THEN ParseErr("PosOverflow")
            ELSE IF n < lo THEN ParseErr("NegOverflow")
            ELSE ParseDigits(Tail(digits), n, positive, lo, hi)

\* str::parse for an integer type with the range lo..hi
ParseInt(t, lo, hi) ==
    IF t = <<>> THEN ParseErr("Empty")
    ELSE IF Len(t) = 1 /\ Head(t) \in {"+", "-"} THEN ParseErr("InvalidDigit")
    ELSE IF Head(t) = "+" THEN ParseDigits(Tail(t), 0, TRUE, lo, hi)
    ELSE IF Head(t) = "-" /\ lo < 0 THEN ParseDigits(Tail(t), 0, FALSE, lo, hi)
    ELSE ParseDigits(t, 0, TRUE, lo, hi)

U32_MAX == Pow2(U32Bits) - 1

parse_u32(t) == ParseInt(t, 0, U32_MAX)
parse_i32(t) == ParseInt(t, I32_MIN, I32_MAX)

\* mutant: a multiplication that wraps around instead of failing
checked_mul_wraps(a, b) ==
    Some(((a * b - I32_MIN) % Pow2(I32Bits)) + I32_MIN)

\* i32::checked_mul
checked_mul(a, b) ==
    IF a * b > I32_MAX \/ a * b < I32_MIN THEN None ELSE Some(a * b)

(***************************************************************************)
(* The ? operator and the two chains of fallible steps                     *)
(* (examples/error_handling.rs): read_age_from_file and process_number,    *)
(* one action per step.  `ran` lists the steps executed, with their        *)
(* outcome.                                                                *)
(***************************************************************************)
\* mutant: a ? that goes on to the next step after a failure
Try_goes_on(ok, next) == next

\* where control goes after `step?`: on, or out of the function
Try(ok, next) == IF ok THEN next ELSE "return"

NoRet == [tag |-> "none", v |-> 0, from |-> "none", detail |-> "none"]
Ok(x) == [tag |-> "Ok", v |-> x, from |-> "none", detail |-> "none"]
\* an error value, with the step that produced it and the error it wraps
Err(kind, from, detail) == [tag |-> kind, v |-> 0, from |-> from, detail |-> detail]

Ran(step, ok) == [step |-> step, ok |-> ok]

\* the age above which read_age_from_file refuses the value
AgeLimit == 150

InitChain ==
    /\ ra = [pc |-> "open", contents |-> <<>>, age |-> 0, ran |-> <<>>, ret |-> NoRet]
    /\ pn = [pc |-> "parse", input |-> <<>>, n |-> 0, ran |-> <<>>, ret |-> NoRet]

\* let mut file = File::open(filename)?;
RA_Open ==
    /\ example = "read_age"
    /\ ra.pc = "open"
    /\ \E ok \in BOOLEAN :
        ra' = [ra EXCEPT !.pc = Try(ok, "read"),
                         !.ran = Append(@, Ran("open", ok)),
                         !.ret = IF ok THEN @ ELSE Err("IoError", "open", "io::Error")]
    /\ UNCHANGED <<example, lateVars, bankVars, divVars, dbVars, mainVars, pn, collVars>>

\* file.read_to_string(&mut contents)?;
RA_Read ==
    /\ example = "read_age"
    /\ ra.pc = "read"
    /\ \/ \E text \in Strings :
            ra' = [ra EXCEPT !.pc = Try(TRUE, "parse"),
                             !.contents = text,
                             !.ran = Append(@, Ran("read", TRUE))]
       \/ ra' = [ra EXCEPT !.pc = Try(FALSE, "parse"),
                           !.ran = Append(@, Ran("read", FALSE)),
                           !.ret = Err("IoError", "read", "io::Error")]
    /\ UNCHANGED <<example, lateVars, bankVars, divVars, dbVars, mainVars, pn, collVars>>

\* let age: u32 = contents.trim().parse()?;
RA_Parse ==
    /\ example = "read_age"
    /\ ra.pc = "parse"
    /\ LET p == parse_u32(trim(ra.contents))
       IN ra' = [ra EXCEPT !.pc = Try(p.ok, "validate"),
                           !.age = p.v,
                           !.ran = Append(@, Ran("parse", p.ok)),
                           !.ret = IF p.ok THEN @ ELSE Err("ParseError", "parse", p.err)]
    /\ UNCHANGED <<example, lateVars, bankVars, divVars, dbVars, mainVars, pn, collVars>>

\* if age > 150 { return Err(ValidationError) }  Ok(age)
RA_Validate ==
    /\ example = "read_age"
    /\ ra.pc = "validate"
    /\ ra' = [ra EXCEPT !.pc = "return",
                        !.ran = Append(@, Ran("validate", ra.age <= AgeLimit)),
                        !.ret = IF ra.age > AgeLimit
                                THEN Err("ValidationError", "validate",
                                         "Age seems unrealistic")
                                ELSE Ok(ra.age)]
    /\ UNCHANGED <<example, lateVars, bankVars, divVars, dbVars, mainVars, pn, collVars>>

\* input.trim().parse::<i32>().map_err(|e| format!("Parse error: {}", e))?
PN_Parse ==
    /\ example = "process_number"
    /\ pn.pc = "parse"
    /\ \E input \in Strings :
        LET p == parse_i32(trim(input))
        IN pn' = [pn EXCEPT !.pc = Try(p.ok, "checked_mul"),
                            !.input = input,
                            !.n = p.v,
                            !.ran = Append(@, Ran("parse", p.ok)),
                            !.ret = IF p.ok THEN @ ELSE Err("Parse error", "parse", p.err)]
    /\ UNCHANGED <<example, lateVars, bankVars, divVars, dbVars, mainVars, ra, collVars>>

\* .checked_mul(2).ok_or_else(|| String::from("Multiplication overflow"))
PN_CheckedMul ==
    /\ example = "process_number"
    /\ pn.pc = "checked_mul"
    /\ LET m == checked_mul(pn.n, 2)
       IN pn' = [pn EXCEPT !.pc = "return",
                           !.ran = Append(@, Ran("checked_mul", m.tag = "Some")),
                           !.ret = IF m.tag = "Some" THEN Ok(m.v)
                                   ELSE Err("Multiplication overflow", "checked_mul",
                                            "none")]
    /\ UNCHANGED <<example, lateVars, bankVars, divVars, dbVars, mainVars, ra, collVars>>

(***************************************************************************)
(* Vec and HashMap as examples/collections.rs uses them.  A Vec is a       *)
(* sequence; a HashMap is a function whose domain is its set of keys.      *)
(***************************************************************************)
VecElems == {3, 4}
MapKeys == {"Alice", "Bob"}
MapVals == {95, 98}

Vec_new == <<>>

Vec_push(v, x) == Append(v, x)

\* mutant: a pop that takes the first element
Vec_pop_first(v) ==
    IF v = <<>> THEN [vec |-> v, ret |-> None]
    ELSE [vec |-> Tail(v), ret |-> Some(Head(v))]

Vec_pop(v) ==
    IF v = <<>> THEN [vec |-> v, ret |-> None]
    ELSE [vec |-> SubSeq(v, 1, Len(v) - 1), ret |-> Some(v[Len(v)])]

HashMap_new == <<>>

\* mutant: an insert that keeps the value of a key already present
HashMap_insert_keeps(m, k, v) ==
    [map |-> [x \in DOMAIN m \cup {k} |-> IF x \in DOMAIN m THEN m[x] ELSE v],
     ret |-> IF k \in DOMAIN m THEN Some(m[k]) ELSE None]

HashMap_insert(m, k, v) ==
    [map |-> [x \in DOMAIN m \cup {k} |-> IF x = k THEN v ELSE m[x]],
     ret |-> IF k \in DOMAIN m THEN Some(m[k]) ELSE None]

HashMap_get(m, k) == IF k \in DOMAIN m THEN Some(m[k]) ELSE None

HashMap_len(m) == Cardinality(DOMAIN m)

InitCollections ==
    /\ vec = Vec_new
    /\ vecHist = <<>>
    /\ map = HashMap_new
    /\ mapHist = <<>>

Push ==
    /\ example = "vec"
    /\ Len(vecHist) < MaxVecCalls
    /\ \E x \in VecElems :
        /\ vec' = Vec_push(vec, x)
        /\ vecHist' = Append(vecHist, [op |-> "push", x |-> x, ret |-> None,
                                       before |-> vec, after |-> vec'])
    /\ UNCHANGED <<example, lateVars, bankVars, divVars, dbVars, mainVars, chainVars,
                   map, mapHist>>

Pop ==
    /\ example = "vec"
    /\ Len(vecHist) < MaxVecCalls
    /\ vec' = Vec_pop(vec).vec
    /\ vecHist' = Append(vecHist, [op |-> "pop", x |-> 0, ret |-> Vec_pop(vec).ret,
                                   before |-> vec, after |-> vec'])
    /\ UNCHANGED <<example, lateVars, bankVars, divVars, dbVars, mainVars, chainVars,
                   map, mapHist>>

Insert ==
    /\ example = "hashmap"
    /\ Len(mapHist) < MaxMapCalls
    /\ \E k \in MapKeys, v \in MapVals :
        LET r == HashMap_insert(map, k, v) IN
        /\ map' = r.map
        /\ mapHist' = Append(mapHist, [op |-> "insert", k |-> k, v |-> v,
                                       ret |-> r.ret, before |-> map,
                                       after |-> r.map])
    /\ UNCHANGED <<example, lateVars, bankVars, divVars, dbVars, mainVars, chainVars,
                   vec, vecHist>>

Get ==
    /\ example = "hashmap"
    /\ Len(mapHist) < MaxMapCalls
    /\ \E k \in MapKeys :
        /\ map' = map
        /\ mapHist' = Append(mapHist, [op |-> "get", k |-> k, v |-> 0,
                                       ret |-> HashMap_get(map, k),
                                       before |-> map, after |-> map])
    /\ UNCHANGED <<example, lateVars, bankVars, divVars, dbVars, mainVars, chainVars,
                   vec, vecHist>>

(***************************************************************************)
(* HashSet as examples/collections.rs uses it: a set of values.            *)
(***************************************************************************)
SetElems == {"home", "about"}

HashSet_new == {}

\* mutant: an insert that always reports a new value
HashSet_insert_reports_new(s, x) == [set |-> s \cup {x}, ret |-> TRUE]

HashSet_insert(s, x) == [set |-> s \cup {x}, ret |-> x \notin s]

HashSet_contains(s, x) == x \in s

HashSet_len(s) == Cardinality(s)

InitSet ==
    /\ hset = HashSet_new
    /\ setHist = <<>>

SetInsert ==
    /\ example = "hashset"
    /\ Len(setHist) < MaxSetCalls
    /\ \E x \in SetElems :
        LET r == HashSet_insert(hset, x) IN
        /\ hset' = r.set
        /\ setHist' = Append(setHist, [op |-> "insert", x |-> x, ret |-> r.ret,
                                       before |-> hset, after |-> r.set])
    /\ UNCHANGED <<example, earlyVars, wc, pipe, lightLast, ageLast, csLast, emailLast, unLast>>

SetContains ==
    /\ example = "hashset"
    /\ Len(setHist) < MaxSetCalls
    /\ \E x \in SetElems :
        /\ hset' = hset
        /\ setHist' = Append(setHist, [op |-> "contains", x |-> x,
                                       ret |-> HashSet_contains(hset, x),
                                       before |-> hset, after |-> hset])
    /\ UNCHANGED <<example, earlyVars, wc, pipe, lightLast, ageLast, csLast, emailLast, unLast>>

(***************************************************************************)
(* The word frequency counter of examples/collections.rs.  A text is a     *)
(* sequence of characters, a word a sequence of characters without         *)
(* whitespace.                                                             *)
(***************************************************************************)
\* the sequences of up to n elements of S
RECURSIVE SeqsUpTo(_, _)
SeqsUpTo(S, n) ==
    IF n = 0 THEN {<<>>}
    ELSE LET shorter == SeqsUpTo(S, n - 1)
         IN shorter \cup {Append(t, c) : t \in shorter, c \in S}

\* "hello world hello"
HelloText ==
    <<"h", "e", "l", "l", "o", " ", "w", "o", "r", "l", "d", " ", "h", "e",
      "l", "l", "o">>

\* "the quick brown fox jumps over the lazy dog the fox"
FoxText ==
    <<"t", "h", "e", " ", "q", "u", "i", "c", "k", " ", "b", "r", "o", "w",
      "n", " ", "f", "o", "x", " ", "j", "u", "m", "p", "s", " ", "o", "v",
      "e", "r", " ", "t", "h", "e", " ", "l", "a", "z", "y", " ", "d", "o",
      "g", " ", "t", "h", "e", " ", "f", "o", "x">>

Texts == SeqsUpTo({"a", "b", " "}, MaxTextLen) \cup {HelloText, FoxText}

\* where the run of non-whitespace characters that starts s ends
RunEnd(s) ==
    CHOOSE e \in 1..(Len(s) + 1) :
        /\ e = Len(s) + 1 \/ IsWhitespace(s[e])
        /\ \A j \in 1..(e - 1) : ~IsWhitespace(s[j])

\* mutant: an iterator that takes the whole rest of the text as one word
split_whitespace_next_takes_rest(rest) ==
    LET s == TrimStart(rest)
    IN IF s = <<>> THEN [some |-> FALSE, word |-> <<>>, rest |-> <<>>]
       ELSE [some |-> TRUE, word |-> s, rest |-> <<>>]

\* SplitWhitespace::next: the next word, and the text left after it
split_whitespace_next(rest) ==
    LET s == TrimStart(rest)
        e == RunEnd(s)
    IN IF s = <<>> THEN [some |-> FALSE, word |-> <<>>, rest |-> <<>>]
       ELSE [some |-> TRUE, word |-> SubSeq(s, 1, e - 1),
             rest |-> SubSeq(s, e, Len(s))]

\* mutant: an entry that is set to the default even when the key is present
entry_or_insert_resets(m, k, d) ==
    [x \in DOMAIN m \cup {k} |-> IF x = k THEN d ELSE m[x]]

\* map.entry(k).or_insert(d): the map with k present
entry_or_insert(m, k, d) ==
    [x \in DOMAIN m \cup {k} |-> IF x \in DOMAIN m THEN m[x] ELSE d]

\* *count += n on the entry of k
add_assign(m, k, n) == [m EXCEPT ![k] = @ + n]

InitWordCount ==
    wc = [pc |-> "start", text |-> <<>>, rest |-> <<>>, counts |-> HashMap_new]

WC_Start ==
    /\ example = "word_count"
    /\ wc.pc = "start"
    /\ \E text \in Texts :
        wc' = [pc |-> "loop", text |-> text, rest |-> text, counts |-> HashMap_new]
    /\ UNCHANGED <<example, earlyVars, hset, setHist, pipe, lightLast, ageLast, csLast, emailLast, unLast>>

\* one turn of the for loop, or its end when the iterator is exhausted
WC_Loop ==
    /\ example = "word_count"
    /\ wc.pc = "loop"
    /\ LET n == split_whitespace_next(wc.rest)
       IN IF n.some
          THEN wc' = [wc EXCEPT !.rest = n.rest,
                                !.counts = add_assign(entry_or_insert(wc.counts, n.word, 0),
                                                      n.word, 1)]
          ELSE wc' = [wc EXCEPT !.pc = "done"]
    /\ UNCHANGED <<example, earlyVars, hset, setHist, pipe, lightLast, ageLast, csLast, emailLast, unLast>>

(***************************************************************************)
(* The iterator chains of examples/collections.rs.  The elements are small *)
(* enough that no square and no sum leaves i32, so the arithmetic is       *)
(* exact.  The adapters are lazy: each pull of the consumer asks take,     *)
(* which asks map, which asks filter, which scans the vector.              *)
(***************************************************************************)
\* vec![1, 2, 3, 4, 5, 6, 7, 8, 9, 10]
Numbers10 == <<1, 2, 3, 4, 5, 6, 7, 8, 9, 10>>

\* vec![1, 2, 3, 4, 5]
Nums5 == <<1, 2, 3, 4, 5>>

PipeInputs ==
    SeqsUpTo((0 - MaxElem)..MaxElem, MaxPipeLen) \cup {Numbers10, Nums5}

\* a % b of Rust: the remainder has the sign of a
Rem(a, b) == a - b * TruncDiv(a, b)

\* |&&x| x % 2 == 0
is_even(x) == Rem(x, 2) = 0

\* |&x| x * x
square(x) == x * x

\* the n of take(n)
TakeN == 3

\* mutant: a filter that yields the last element that passes, not the next
filter_next_last(numbers, pos) ==
    LET hits == {i \in pos..Len(numbers) : is_even(numbers[i])}
    IN IF hits = {} THEN [some |-> FALSE, x |-> 0, pos |-> Len(numbers) + 1]
       ELSE LET i == CHOOSE i \in hits : \A j \in hits : j <= i
            IN [some |-> TRUE, x |-> numbers[i], pos |-> i + 1]

\* Filter::next: the next element from pos on that passes, and where the
\* scan stands afterwards
filter_next(numbers, pos) ==
    LET hits == {i \in pos..Len(numbers) : is_even(numbers[i])}
    IN IF hits = {} THEN [some |-> FALSE, x |-> 0, pos |-> Len(numbers) + 1]
       ELSE LET i == CHOOSE i \in hits : \A j \in hits : i <= j
            IN [some |-> TRUE, x |-> numbers[i], pos |-> i + 1]

InitPipe ==
    pipe = [pc |-> "start", mode |-> "none", numbers |-> <<>>, pos |-> 1,
            left |-> 0, acc |-> 0, kept |-> <<>>]

\* numbers.iter().filter(..).map(..).take(3).sum(), before the first pull
Pipe_StartSum ==
    /\ example = "iterator_chain"
    /\ pipe.pc = "start"
    /\ \E numbers \in PipeInputs :
        pipe' = [pc |-> "pull", mode |-> "sum", numbers |-> numbers, pos |-> 1,
                 left |-> TakeN, acc |-> 0, kept |-> <<>>]
    /\ UNCHANGED <<example, earlyVars, hset, setHist, wc, lightLast, ageLast, csLast, emailLast, unLast>>

\* nums.iter().filter(..).copied().collect(), before the first pull
Pipe_StartCollect ==
    /\ example = "iterator_chain"
    /\ pipe.pc = "start"
    /\ \E numbers \in PipeInputs :
        pipe' = [pc |-> "pull", mode |-> "collect", numbers |-> numbers, pos |-> 1,
                 left |-> 0, acc |-> 0, kept |-> <<>>]
    /\ UNCHANGED <<example, earlyVars, hset, setHist, wc, lightLast, ageLast, csLast, emailLast, unLast>>

\* one pull of sum: take gives nothing once it has given TakeN elements
Pipe_PullSum ==
    /\ example = "iterator_chain"
    /\ pipe.pc = "pull"
    /\ pipe.mode = "sum"
    /\ LET f == filter_next(pipe.numbers, pipe.pos)
       IN IF pipe.left = 0 THEN pipe' = [pipe EXCEPT !.pc = "done"]
          ELSE IF f.some
          THEN pipe' = [pipe EXCEPT !.pos = f.pos, !.left = @ - 1,
                                    !.acc = @ + square(f.x),
                                    !.kept = Append(@, f.x)]
          ELSE pipe' = [pipe EXCEPT !.pc = "done", !.pos = f.pos]
    /\ UNCHANGED <<example, earlyVars, hset, setHist, wc, lightLast, ageLast, csLast, emailLast, unLast>>

\* one pull of collect
Pipe_PullCollect ==
    /\ example = "iterator_chain"
    /\ pipe.pc = "pull"
    /\ pipe.mode = "collect"
    /\ LET f == filter_next(pipe.numbers, pipe.pos)
       IN IF f.some
          THEN pipe' = [pipe EXCEPT !.pos = f.pos, !.kept = Append(@, f.x)]
          ELSE pipe' = [pipe EXCEPT !.pc = "done", !.pos = f.pos]
    /\ UNCHANGED <<example, earlyVars, hset, setHist, wc, lightLast, ageLast, csLast, emailLast, unLast>>

(***************************************************************************)
(* TrafficLight of examples/enums_and_matching.rs.                         *)
(***************************************************************************)
TrafficLight == {"Red", "Yellow", "Green"}

time_to_change(self) ==
    CASE self = "Red" -> 60
      [] self = "Yellow" -> 5
      [] self = "Green" -> 55

\* mutant: a light that also lets traffic go on yellow
can_go_on_yellow(self) ==
    CASE self = "Green" -> TRUE
      [] self = "Yellow" -> TRUE
      [] self = "Red" -> FALSE

can_go(self) ==
    CASE self = "Green" -> TRUE
      [] self \in {"Red", "Yellow"} -> FALSE

InitLight ==
    lightLast = [light |-> "none", go |-> FALSE, time |-> 0]

\* a caller asks a light both questions, as test_traffic_light does
AskLight ==
    /\ example = "traffic_light"
    /\ \E light \in TrafficLight :
        lightLast' = [light |-> light, go |-> can_go(light),
                      time |-> time_to_change(light)]
    /\ UNCHANGED <<example, earlyVars, hset, setHist, wc, pipe, ageLast, csLast, emailLast, unLast>>

(***************************************************************************)
(* parse_age of examples/enums_and_matching.rs.  The input is not trimmed. *)
(***************************************************************************)
\* mutant: the match with its first two arms in the other order
parse_age_unguarded_first(input) ==
    LET p == parse_u32(input)
    IN IF p.ok THEN Err("Age seems unrealistic", "parse_age", "none")
       ELSE IF p.ok /\ p.v <= 120 THEN Ok(p.v)
       ELSE Err("Not a valid number", "parse_age", "none")

\* the arms of the match, tried from the top
parse_age(input) ==
    LET p == parse_u32(input)
    IN IF p.ok /\ p.v <= 120 THEN Ok(p.v)
       ELSE IF p.ok THEN Err("Age seems unrealistic", "parse_age", "none")
       ELSE Err("Not a valid number", "parse_age", "none")

InitParseAge ==
    ageLast = [input |-> <<>>, ret |-> NoRet]

ParseAge ==
    /\ example = "parse_age"
    /\ ageLast.ret = NoRet
    /\ \E input \in Strings :
        ageLast' = [input |-> input, ret |-> parse_age(input)]
    /\ UNCHANGED <<example, earlyVars, hset, setHist, wc, pipe, lightLast, csLast, emailLast, unLast>>

(***************************************************************************)
(* ConnectionState of examples/enums_and_matching.rs.  A value is one      *)
(* variant with its fields; the fields a variant lacks are left empty.     *)
(***************************************************************************)
Disconnected == [variant |-> "Disconnected", session_id |-> "", code |-> 0, message |-> ""]
Connecting == [variant |-> "Connecting", session_id |-> "", code |-> 0, message |-> ""]
Connected(session_id) ==
    [variant |-> "Connected", session_id |-> session_id, code |-> 0, message |-> ""]
Error(code, message) ==
    [variant |-> "Error", session_id |-> "", code |-> code, message |-> message]

ConnectionState ==
    {Disconnected, Connecting}
        \cup {Connected(s) : s \in {"abc123", "test", ""}}
        \cup {Error(c, msg) : c \in {0, 404}, msg \in {"Not found", ""}}

\* mutant: a pattern that wants the session id to be there
is_connected_with_session(self) ==
    self.variant = "Connected" /\ self.session_id # ""

\* matches!(self, ConnectionState::Connected { .. })
is_connected(self) == self.variant = "Connected"

InitConnectionState ==
    csLast = [asked |-> FALSE, state |-> Disconnected, connected |-> FALSE]

AskConnected ==
    /\ example = "connection_state"
    /\ \E state \in ConnectionState :
        csLast' = [asked |-> TRUE, state |-> state, connected |-> is_connected(state)]
    /\ UNCHANGED <<example, earlyVars, hset, setHist, wc, pipe, lightLast, ageLast, emailLast, unLast>>

(***************************************************************************)
(* validate_email of examples/error_handling.rs.  An email is a sequence   *)
(* of characters; str::len counts the bytes of its UTF-8 encoding.         *)
(***************************************************************************)
\* the emails main and the test validate
EmailLiterals ==
    {<<"u", "s", "e", "r", "@", "e", "x", "a", "m", "p", "l", "e", ".", "c", "o", "m">>,
     <<"i", "n", "v", "a", "l", "i", "d">>,
     <<"n", "o", "-", "a", "t", "-", "s", "i", "g", "n", ".", "c", "o", "m">>,
     <<"a", "@", "b">>}

Emails == SeqsUpTo({"@", ".", "a", "é"}, MaxEmailLen) \cup EmailLiterals

\* the bytes char c takes in UTF-8
len_utf8(c) == IF c = "é" THEN 2 ELSE 1

\* str::len
RECURSIVE str_len(_)
str_len(s) == IF s = <<>> THEN 0 ELSE len_utf8(Head(s)) + str_len(Tail(s))

\* str::contains(char)
contains(s, c) == \E i \in DOMAIN s : s[i] = c

\* mutant: the checks with the length check first
validate_email_length_first(email) ==
    IF str_len(email) < 5 THEN Err("Email is too short", "validate_email", "none")
    ELSE IF ~contains(email, "@") THEN Err("Email must contain @", "validate_email", "none")
    ELSE IF ~contains(email, ".")
    THEN Err("Email must contain a domain", "validate_email", "none")
    ELSE Ok(0)

\* the three checks with their early returns; Ok(()) carries no value
validate_email(email) ==
    IF ~contains(email, "@") THEN Err("Email must contain @", "validate_email", "none")
    ELSE IF ~contains(email, ".")
    THEN Err("Email must contain a domain", "validate_email", "none")
    ELSE IF str_len(email) < 5 THEN Err("Email is too short", "validate_email", "none")
    ELSE Ok(0)

InitEmail ==
    emailLast = [email |-> <<>>, ret |-> NoRet]

ValidateEmail ==
    /\ example = "validate_email"
    /\ emailLast.ret = NoRet
    /\ \E email \in Emails :
        emailLast' = [email |-> email, ret |-> validate_email(email)]
    /\ UNCHANGED <<example, earlyVars, hset, setHist, wc, pipe, lightLast, ageLast, csLast, unLast>>

(***************************************************************************)
(* read_username_from_file and read_username_verbose of                    *)
(* examples/error_handling.rs.  The file system decides how File::open and *)
(* read_to_string end; a failed read may have appended part of the file to *)
(* username before it failed.                                              *)
(***************************************************************************)
FileTexts == StringsUpTo(1)

OpenOutcomes ==
    {[ok |-> TRUE, err |-> "none"]}
        \cup {[ok |-> FALSE, err |-> e] : e \in {"NotFound", "PermissionDenied"}}

ReadOutcomes ==
    {[ok |-> TRUE, appended |-> s, err |-> "none"] : s \in FileTexts}
        \cup {[ok |-> FALSE, appended |-> s, err |-> e] :
                    s \in FileTexts, e \in {"InvalidData", "Other"}}

\* the read that never happens when the open fails
NoRead == [ok |-> FALSE, appended |-> <<>>, err |-> "none"]

\* Result<String, io::Error>
OkString(s) == [tag |-> "Ok", s |-> s, err |-> "none"]
ErrIo(e) == [tag |-> "Err", s |-> <<>>, err |-> e]

\* File::open(filename)?, file.read_to_string(&mut username)?, Ok(username)
read_username_from_file(open, read) ==
    IF Try(open.ok, "read") = "return" THEN ErrIo(open.err)
    ELSE LET username == <<>> \o read.appended
         IN IF Try(read.ok, "ok") = "return" THEN ErrIo(read.err)
            ELSE OkString(username)

\* mutant: a second match that gives back what was read when the read fails
read_username_verbose_keeps_partial(open, read) ==
    IF open.ok
    THEN LET username == <<>> \o read.appended
         IN OkString(username)
    ELSE ErrIo(open.err)

\* the same with the two matches written out
read_username_verbose(open, read) ==
    IF open.ok
    THEN LET username == <<>> \o read.appended
         IN IF read.ok THEN OkString(username) ELSE ErrIo(read.err)
    ELSE ErrIo(open.err)

InitUsername ==
    unLast = [called |-> FALSE, open |-> [ok |-> FALSE, err |-> "none"],
              read |-> NoRead, short |-> ErrIo("none"), verbose |-> ErrIo("none")]

\* both functions called on a file that behaves the same way for both
ReadUsername ==
    /\ example = "read_username"
    /\ ~unLast.called
    /\ \E open \in OpenOutcomes :
        \E read \in IF open.ok THEN ReadOutcomes ELSE {NoRead} :
            unLast' = [called |-> TRUE, open |-> open, read |-> read,
                       short |-> read_username_from_file(open, read),
                       verbose |-> read_username_verbose(open, read)]
    /\ UNCHANGED <<example, earlyVars, hset, setHist, wc, pipe, lightLast, ageLast, csLast, emailLast>>

(***************************************************************************)
(* The specification.                                                      *)
(***************************************************************************)
Examples == {"bank", "divide", "database", "main", "read_age",
             "process_number", "vec", "hashmap", "hashset",
             "word_count",
             "iterator_chain",
             "traffic_light",
             "parse_age",
             "connection_state",
             "validate_email",
             "read_username"}

vars == <<example, earlyVars, lateVars>>

Init ==
    /\ example \in Examples
    /\ InitBank
    /\ InitDivide
    /\ InitDb
    /\ InitMain
    /\ InitChain
    /\ InitCollections
    /\ InitSet
    /\ InitWordCount
    /\ InitPipe
    /\ InitLight
    /\ InitParseAge
    /\ InitConnectionState
    /\ InitEmail
    /\ InitUsername

Next ==
    \/ Deposit
    \/ Withdraw
    \/ GetBalance
    \/ Divide
    \/ Connect
    \/ Query
    \/ Disconnect
    \/ MainSection
    \/ MainFileReading
    \/ MainQuery
    \/ MainConnect
    \/ MainDisconnect
    \/ RA_Open
    \/ RA_Read
    \/ RA_Parse
    \/ RA_Validate
    \/ PN_Parse
    \/ PN_CheckedMul
    \/ Push
    \/ Pop
    \/ Insert
    \/ Get
    \/ SetInsert
    \/ SetContains
    \/ WC_Start
    \/ WC_Loop
    \/ Pipe_StartSum
    \/ Pipe_StartCollect
    \/ Pipe_PullSum
    \/ Pipe_PullCollect
    \/ AskLight
    \/ ParseAge
    \/ AskConnected
    \/ ValidateEmail
    \/ ReadUsername

Spec == Init /\ [][Next]_vars

\* main runs to completion: the process is always scheduled
FairSpec == Spec /\ WF_vars(MainNext)
(***************************************************************************)
(* Claims about BankAccount.                                               *)
(***************************************************************************)
\* the exact (real-number) difference and sum of two finite f64 values
ExactSub(x, y) == Fin(x.v - y.v)
ExactAdd(x, y) == Fin(x.v + y.v)

\* C1: withdraw(amount) returns Err when amount <= 0 or amount > balance, and
\* in every other case returns Ok with the balance afterwards equal to the
\* balance before minus exactly amount, a strict decrease.
C1_WithdrawContract ==
    bankLast.op = "withdraw" =>
        LET a == bankLast.amount
            b == bankLast.before.balance
        IN IF FLe(a, Zero) \/ FGt(a, b)
           THEN bankLast.ret # "Ok"
           ELSE /\ bankLast.ret = "Ok"
                /\ IsFinite(a) /\ IsFinite(b)
                /\ account.balance = ExactSub(b, a)
                /\ FLt(account.balance, b)

\* C2: from BankAccount::new, after any sequence of deposit and withdraw
\* calls whose amounts are positive, zero or negative numbers (no NaN), the
\* balance is >= 0 in every reachable state.
C2_BalanceNonNegative ==
    (example = "bank" /\ bankArgs = "clean") => FGe(account.balance, Zero)

\* C3: deposit(amount) with amount > 0 increases the balance by exactly
\* amount (stated for a finite amount on a finite balance); with amount <= 0
\* it leaves the account unchanged; get_balance never changes the account.
C3_DepositFrame ==
    LET a == bankLast.amount
        b == bankLast.before.balance
    IN /\ (bankLast.op = "deposit" /\ FGt(a, Zero) /\ IsFinite(a) /\ IsFinite(b))
            => account.balance = ExactAdd(b, a)
       /\ (bankLast.op = "deposit" /\ FLe(a, Zero)) => account = bankLast.before
       /\ bankLast.op = "get_balance"
            => (account = bankLast.before /\ bankLast.value = bankLast.before.balance)

(***************************************************************************)
(* Claims about the integer divide functions.                              *)
(***************************************************************************)
\* C4: both divide functions return None for every a when b = 0 and
\* Some(a / b), the quotient truncated toward zero, for every a when b # 0,
\* and they agree on every input.
C4_DivideQuotient ==
    divLast.called =>
        /\ divLast.main = divLast.enums
        /\ divLast.b = 0 => divLast.main = None
        /\ divLast.b # 0 => divLast.main = Some(TruncDiv(divLast.a, divLast.b))

\* C7: for every pair of i32 values, the extremes included, divide returns
\* None or Some(value) and never aborts.
C7_DivideNeverAborts ==
    divLast.called =>
        /\ divLast.main.tag \in {"None", "Some"}
        /\ divLast.enums.tag \in {"None", "Some"}
(***************************************************************************)
(* Claims about Database and the main of error_handling.rs.                *)
(***************************************************************************)
\* what the call history h says about the connection: a connect has
\* occurred and no successful disconnect has occurred since
ConnectedAfter(h) ==
    \E j \in DOMAIN h :
        /\ h[j].op = "connect"
        /\ \A k \in (j + 1)..Len(h) : ~(h[k].op = "disconnect" /\ h[k].ret = "Ok")

\* C5: from Database::new(), after any sequence of connect, disconnect and
\* query calls, a query with a non-empty sql returns Ok exactly when a
\* connect has occurred and no successful disconnect has occurred since.
C5_QueryOkIffConnected ==
    /\ db.connected <=> ConnectedAfter(dbHist)
    /\ \A i \in DOMAIN dbHist :
        (dbHist[i].op = "query" /\ dbHist[i].sql # "")
            => ((dbHist[i].ret = "Ok") <=> ConnectedAfter(SubSeq(dbHist, 1, i - 1)))

\* C5 witness: query fails before the first connect, succeeds after connect
\* and fails again after disconnect.
C5_Witness ==
    /\ example = "database"
    /\ Len(dbHist) = 5
    /\ [i \in 1..5 |-> dbHist[i].op]
         = <<"query", "connect", "query", "disconnect", "query">>
    /\ [i \in 1..5 |-> dbHist[i].ret]
         = <<"Err: Not connected to database", "Ok", "Ok", "Ok",
             "Err: Not connected to database">>
    /\ \A i \in {1, 3, 5} : dbHist[i].sql # ""

\* the results main's four Database calls are claimed to have
MainDbRets == <<"Err: Not connected to database", "Ok", "Ok", "Ok">>

\* C8: in main's sequence on a fresh Database (query, connect, query,
\* disconnect) the first query returns Err, connect Ok, the second query Ok
\* and disconnect Ok, so neither expect aborts, and main goes on past every
\* printed failure to its final line and terminates.
C8_MainRunsToEnd ==
    /\ [](example = "main" =>
            /\ mainPc # "panicked"
            /\ Len(dbHist) <= 4
            /\ \A i \in DOMAIN dbHist : dbHist[i].ret = MainDbRets[i]
            /\ mainPc = "done" => Len(dbHist) = 4)
    /\ (example = "main") ~> (mainPc = "done")

\* C8 witness: main is at its end, after the four Database calls and a
\* printed failure.
C8_Witness ==
    /\ example = "main"
    /\ mainPc = "done"
    /\ Len(dbHist) = 4
    /\ \E i \in DOMAIN mainOut : mainOut[i] = "fail"
    /\ mainOut[Len(mainOut)] = "9_strategies"
(***************************************************************************)
(* Claims about the chains of fallible steps.                              *)
(***************************************************************************)
AgeSteps == <<"open", "read", "parse", "validate">>
NumberSteps == <<"parse", "checked_mul">>

\* the steps of `ran` are the first steps of `steps`, in order, and no step
\* follows a failed one
ShortCircuits(ran, steps) ==
    /\ Len(ran) <= Len(steps)
    /\ \A i \in DOMAIN ran : ran[i].step = steps[i]
    /\ \A i \in DOMAIN ran : i < Len(ran) => ran[i].ok

\* the function has returned the error of its first failed step, or Ok
\* after all of `steps` succeeded
ReturnsFirstFailure(f, steps) ==
    f.pc = "return" =>
        /\ f.ran # <<>>
        /\ LET last == f.ran[Len(f.ran)]
           IN IF last.ok
              THEN Len(f.ran) = Len(steps) /\ f.ret.tag = "Ok"
              ELSE f.ret.tag \notin {"Ok", "none"} /\ f.ret.from = last.step

\* C6: a chain of fallible steps propagates the first failure without
\* executing any later step: in read_age_from_file the steps open, read,
\* parse, validate run in that order, the returned error is that of the
\* first step that fails, no step after it runs, and Ok(age) is returned
\* only when all steps succeed; in process_number a parse failure is
\* returned without the multiplication being attempted.
C6_FirstFailurePropagates ==
    /\ ShortCircuits(ra.ran, AgeSteps)
    /\ ReturnsFirstFailure(ra, AgeSteps)
    /\ ra.pc # "return" => ra.ret = NoRet
    /\ ra.ret.tag = "Ok" =>
         /\ [i \in DOMAIN ra.ran |-> ra.ran[i].ok] = <<TRUE, TRUE, TRUE, TRUE>>
         /\ ra.ret.v = parse_u32(trim(ra.contents)).v
         /\ ra.ret.v <= AgeLimit
    /\ ShortCircuits(pn.ran, NumberSteps)
    /\ ReturnsFirstFailure(pn, NumberSteps)
    /\ (pn.ran # <<>> /\ ~parse_i32(trim(pn.input)).ok) =>
         /\ pn.ran = <<Ran("parse", FALSE)>>
         /\ pn.pc = "return"
         /\ pn.ret.tag = "Parse error"

\* C6 witness: read_age_from_file returned the parse step's error after
\* open and read succeeded, without validating.
C6_Witness ==
    /\ ra.pc = "return"
    /\ ra.ran = <<Ran("open", TRUE), Ran("read", TRUE), Ran("parse", FALSE)>>
    /\ ra.ret.tag = "ParseError" /\ ra.ret.from = "parse"
(***************************************************************************)
(* Claims about Vec and HashMap.                                           *)
(***************************************************************************)
\* C9: for every sequence v and element x, pushing x onto v and then
\* popping returns Some(x) and leaves the sequence with its prior length
\* and contents; push increases the length by exactly one.
C9_PushThenPop ==
    \A i \in DOMAIN vecHist :
        /\ vecHist[i].op = "push" =>
             Len(vecHist[i].after) = Len(vecHist[i].before) + 1
        /\ (i > 1 /\ vecHist[i].op = "pop" /\ vecHist[i - 1].op = "push") =>
             /\ vecHist[i].ret = Some(vecHist[i - 1].x)
             /\ vecHist[i].after = vecHist[i - 1].before
             /\ Len(vecHist[i].after) = Len(vecHist[i - 1].before)

\* C9 witness: a push onto a non-empty Vec holding another element,
\* followed by a pop.
C9_Witness ==
    /\ Len(vecHist) = 3
    /\ vecHist[2].op = "push" /\ vecHist[3].op = "pop"
    /\ vecHist[2].before # <<>>
    /\ vecHist[2].before[1] # vecHist[2].x
    /\ vec = vecHist[2].before

\* the value the history h last inserted for key k, if any
LatestInsert(h, k) ==
    LET at == {j \in DOMAIN h : h[j].op = "insert" /\ h[j].k = k}
    IN IF at = {} THEN None
       ELSE Some(h[CHOOSE j \in at : \A l \in at : l <= j].v)

\* C10: inserting a key that is already present overwrites its value: after
\* insert(k, v1) then insert(k, v2), get(k) returns v2, the number of keys
\* is unchanged by the second insert, and get of a key never inserted
\* returns None.
C10_InsertOverwrites ==
    \A i \in DOMAIN mapHist :
        /\ mapHist[i].op = "get" =>
             mapHist[i].ret = LatestInsert(SubSeq(mapHist, 1, i - 1), mapHist[i].k)
        /\ (mapHist[i].op = "insert"
              /\ LatestInsert(SubSeq(mapHist, 1, i - 1), mapHist[i].k) # None) =>
             HashMap_len(mapHist[i].after) = HashMap_len(mapHist[i].before)

\* C10 witness: insert(k, v1), insert(k, v2) with v2 # v1, then get(k).
C10_Witness ==
    /\ Len(mapHist) = 3
    /\ mapHist[1].op = "insert" /\ mapHist[2].op = "insert" /\ mapHist[3].op = "get"
    /\ mapHist[1].k = mapHist[2].k /\ mapHist[2].k = mapHist[3].k
    /\ mapHist[1].v # mapHist[2].v
    /\ mapHist[3].ret = Some(mapHist[2].v)
(***************************************************************************)
(* Claims about HashSet.                                                   *)
(***************************************************************************)
\* the values the history h has inserted
InsertedBy(h) == {h[j].x : j \in {l \in DOMAIN h : h[l].op = "insert"}}

\* C11: inserting into a set a value that is not present returns true and
\* adds it; inserting a value already present returns false and leaves the
\* set (membership and size) unchanged.
C11_SetInsert ==
    \A i \in DOMAIN setHist :
        LET c == setHist[i]
            present == c.x \in InsertedBy(SubSeq(setHist, 1, i - 1))
        IN /\ c.before = InsertedBy(SubSeq(setHist, 1, i - 1))
           /\ c.op = "contains" => (c.ret = present /\ c.after = c.before)
           /\ (c.op = "insert" /\ ~present) =>
                /\ c.ret = TRUE
                /\ c.after = c.before \cup {c.x}
                /\ HashSet_len(c.after) = HashSet_len(c.before) + 1
           /\ (c.op = "insert" /\ present) =>
                /\ c.ret = FALSE
                /\ c.after = c.before
                /\ HashSet_len(c.after) = HashSet_len(c.before)

\* C11 witness: a value inserted twice into a set that holds another value.
C11_Witness ==
    /\ Len(setHist) = 3
    /\ \A i \in 1..3 : setHist[i].op = "insert"
    /\ setHist[1].x # setHist[2].x
    /\ setHist[3].x = setHist[1].x
    /\ setHist[3].ret = FALSE
    /\ HashSet_len(hset) = 2

(***************************************************************************)
(* Claims about the word frequency counter.                                *)
(***************************************************************************)
\* the positions of text where a word starts
WordStarts(text) ==
    {a \in DOMAIN text :
        /\ ~IsWhitespace(text[a])
        /\ a = 1 \/ IsWhitespace(text[a - 1])}

\* the word of text that starts at a
WordAt(text, a) ==
    LET b == CHOOSE b \in a..Len(text) :
                /\ \A j \in a..b : ~IsWhitespace(text[j])
                /\ b = Len(text) \/ IsWhitespace(text[b + 1])
    IN SubSeq(text, a, b)

Occurrences(text, w) ==
    Cardinality({a \in WordStarts(text) : WordAt(text, a) = w})

RECURSIVE SumOver(_, _)
SumOver(f, keys) ==
    IF keys = {} THEN 0
    ELSE LET k == CHOOSE k \in keys : TRUE
         IN f[k] + SumOver(f, keys \ {k})

\* C12: after the loop the keys of the map are the distinct words of the
\* text, each value is the number of times its word occurs, and the values
\* sum to the number of words; "hello world hello" gives hello 2, world 1.
C12_WordFrequency ==
    wc.pc = "done" =>
        /\ DOMAIN wc.counts = {WordAt(wc.text, a) : a \in WordStarts(wc.text)}
        /\ \A w \in DOMAIN wc.counts : wc.counts[w] = Occurrences(wc.text, w)
        /\ SumOver(wc.counts, DOMAIN wc.counts) = Cardinality(WordStarts(wc.text))
        /\ wc.text = HelloText =>
             wc.counts = [w \in {SubSeq(HelloText, 1, 5), SubSeq(HelloText, 7, 11)} |->
                            IF w = SubSeq(HelloText, 1, 5) THEN 2 ELSE 1]

\* C12 witness: the loop has counted "hello world hello".
C12_Witness ==
    /\ wc.pc = "done"
    /\ wc.text = HelloText
    /\ Cardinality(DOMAIN wc.counts) = 2

(***************************************************************************)
(* Claims about the iterator chains.                                       *)
(***************************************************************************)
Even(x) == \E k \in (0 - Abs(x))..Abs(x) : x = 2 * k

\* the even elements of s, in the order s has them
Evens(s) == SelectSeq(s, Even)

RECURSIVE SumOfSquares(_)
SumOfSquares(s) ==
    IF s = <<>> THEN 0 ELSE Head(s) * Head(s) + SumOfSquares(Tail(s))

FirstThree(s) == SubSeq(s, 1, IF Len(s) < 3 THEN Len(s) ELSE 3)

\* C13: filter-even, square, take 3, sum over 1..10 is 56, the kept elements
\* being 2, 4, 6; in general the chain sums the squares of the first three
\* even elements, and filtering keeps the even elements in their order.
C13_IteratorChain ==
    pipe.pc = "done" =>
        /\ pipe.mode = "sum" =>
            /\ pipe.kept = FirstThree(Evens(pipe.numbers))
            /\ pipe.acc = SumOfSquares(pipe.kept)
            /\ pipe.numbers = Numbers10 => (pipe.kept = <<2, 4, 6>> /\ pipe.acc = 56)
        /\ pipe.mode = "collect" =>
            /\ pipe.kept = Evens(pipe.numbers)
            /\ pipe.numbers = Nums5 => pipe.kept = <<2, 4>>

\* C13 witness: the chain has summed 1..10, leaving 8 and 10 unscanned.
C13_Witness ==
    /\ pipe.pc = "done"
    /\ pipe.mode = "sum"
    /\ pipe.numbers = Numbers10
    /\ pipe.left = 0
    /\ pipe.pos = 7

(***************************************************************************)
(* Claims about TrafficLight.                                              *)
(***************************************************************************)
\* C14: can_go is true exactly for Green, false for Red and Yellow;
\* time_to_change is 60 for Red, 5 for Yellow and 55 for Green.
C14_TrafficLight ==
    lightLast.light # "none" =>
        /\ lightLast.go <=> lightLast.light = "Green"
        /\ lightLast.light \in {"Red", "Yellow"} => lightLast.go = FALSE
        /\ lightLast.light = "Red" => lightLast.time = 60
        /\ lightLast.light = "Yellow" => lightLast.time = 5
        /\ lightLast.light = "Green" => lightLast.time = 55

\* C14 witness: a yellow light was asked and said no, in 5.
C14_Witness ==
    /\ lightLast.light = "Yellow"
    /\ lightLast.go = FALSE
    /\ lightLast.time = 5

(***************************************************************************)
(* Claims about parse_age.                                                 *)
(***************************************************************************)
\* t without the plus sign a numeral may start with
Unsigned(t) == IF t # <<>> /\ Head(t) = "+" THEN Tail(t) ELSE t

\* t is a decimal numeral: digits, at least one, after an optional plus
IsNumeral(t) ==
    /\ Unsigned(t) # <<>>
    /\ \A i \in DOMAIN Unsigned(t) : Unsigned(t)[i] \in DOMAIN DigitVal

RECURSIVE DigitsValue(_)
DigitsValue(d) ==
    IF d = <<>> THEN 0
    ELSE 10 * DigitsValue(SubSeq(d, 1, Len(d) - 1)) + DigitVal[d[Len(d)]]

\* t parses as a u32
IsU32(t) == IsNumeral(t) /\ DigitsValue(Unsigned(t)) <= U32_MAX

\* C15: parse_age returns Ok(age) exactly when the input parses as an
\* unsigned integer of at most 120, "Age seems unrealistic" when it parses
\* to more than 120, "Not a valid number" when it does not parse, and so
\* exactly one of the three for every input.
C15_ParseAge ==
    ageLast.ret # NoRet =>
        LET t == ageLast.input
            age == DigitsValue(Unsigned(t))
        IN /\ ageLast.ret.tag = "Ok" <=> (IsU32(t) /\ age <= 120)
           /\ ageLast.ret.tag = "Ok" => ageLast.ret.v = age
           /\ ageLast.ret.tag = "Age seems unrealistic" <=> (IsU32(t) /\ age > 120)
           /\ ageLast.ret.tag = "Not a valid number" <=> ~IsU32(t)
           /\ ageLast.ret.tag \in {"Ok", "Age seems unrealistic", "Not a valid number"}

\* C15 witness: an input that parses and fails the guard of the first arm.
C15_Witness ==
    /\ ageLast.input = <<"1", "5", "1">>
    /\ ageLast.ret.tag = "Age seems unrealistic"

(***************************************************************************)
(* Claims about ConnectionState.                                           *)
(***************************************************************************)
\* C16: a ConnectionState is exactly one of Disconnected, Connecting,
\* Connected and Error, and is_connected is true exactly for Connected,
\* whatever the session id.
C16_IsConnected ==
    csLast.asked =>
        /\ Cardinality({v \in {"Disconnected", "Connecting", "Connected", "Error"} :
                            csLast.state.variant = v}) = 1
        /\ csLast.connected <=> csLast.state.variant = "Connected"
        /\ csLast.state.variant \in {"Disconnected", "Connecting", "Error"} =>
             csLast.connected = FALSE

\* C16 witness: a Connected state with an empty session id was asked.
C16_Witness ==
    /\ csLast.asked
    /\ csLast.state = Connected("")
    /\ csLast.connected

(***************************************************************************)
(* Claims about validate_email.                                            *)
(***************************************************************************)
HasChar(s, c) == c \in {s[i] : i \in DOMAIN s}

\* the length of s in bytes: one for each character, one more for each "é"
Bytes(s) == Len(s) + Cardinality({i \in DOMAIN s : s[i] = "é"})

\* C17: validate_email reports only the first violated check, in the order
\* '@', '.', length (in bytes) at least 5, and returns Ok(()) exactly when
\* none is violated.
C17_ValidateEmail ==
    emailLast.ret # NoRet =>
        LET e == emailLast.email
            tag == emailLast.ret.tag
        IN /\ tag = "Email must contain @" <=> ~HasChar(e, "@")
           /\ tag = "Email must contain a domain" <=>
                (HasChar(e, "@") /\ ~HasChar(e, "."))
           /\ tag = "Email is too short" <=>
                (HasChar(e, "@") /\ HasChar(e, ".") /\ Bytes(e) < 5)
           /\ tag = "Ok" <=> (HasChar(e, "@") /\ HasChar(e, ".") /\ Bytes(e) >= 5)

\* C17 witness: an email that violates the second and the third check.
C17_Witness ==
    /\ emailLast.email = <<"a", "@", "a">>
    /\ emailLast.ret.tag = "Email must contain a domain"

(***************************************************************************)
(* Claims about process_number.                                            *)
(***************************************************************************)
\* t without the sign a signed numeral may start with
Unsign(t) == IF t # <<>> /\ Head(t) \in {"+", "-"} THEN Tail(t) ELSE t

\* t is a signed decimal numeral: digits, at least one, after an optional sign
IsSignedNumeral(t) ==
    /\ Unsign(t) # <<>>
    /\ \A i \in DOMAIN Unsign(t) : Unsign(t)[i] \in DOMAIN DigitVal

SignedValue(t) ==
    IF Head(t) = "-" THEN 0 - DigitsValue(Unsign(t)) ELSE DigitsValue(Unsign(t))

\* t parses as an i32
IsI32(t) == IsSignedNumeral(t) /\ SignedValue(t) \in I32

\* C18: process_number never returns a wrapped value: an input that, once
\* trimmed, parses as an i32 n gives Ok(2n) when 2n fits in i32 and
\* "Multiplication overflow" otherwise; an input that does not parse as an
\* i32, numbers outside i32 included, gives a "Parse error".
C18_ProcessNumber ==
    pn.pc = "return" =>
        LET t == trim(pn.input)
        IN /\ (IsI32(t) /\ 2 * SignedValue(t) \in I32) =>
                pn.ret = Ok(2 * SignedValue(t))
           /\ (IsI32(t) /\ 2 * SignedValue(t) \notin I32) =>
                pn.ret.tag = "Multiplication overflow"
           /\ ~IsI32(t) => pn.ret.tag = "Parse error"
           /\ pn.ret.tag = "Ok" => (IsI32(t) /\ pn.ret.v = 2 * SignedValue(t))

\* C18 witness: a number inside i32 whose double is outside.
C18_Witness ==
    /\ pn.pc = "return"
    /\ pn.input = <<" ", "-", "5">>
    /\ pn.ret.tag = "Multiplication overflow"

(***************************************************************************)
(* Claims about read_username_from_file and read_username_verbose.         *)
(***************************************************************************)
\* C19: the two functions return the same result for every outcome of the
\* open and the read: the open's error if the open fails, otherwise the
\* read's error if the read fails, otherwise Ok of the file's contents.
C19_SameResult ==
    unLast.called =>
        /\ unLast.short = unLast.verbose
        /\ ~unLast.open.ok =>
             (unLast.short.tag = "Err" /\ unLast.short.err = unLast.open.err)
        /\ (unLast.open.ok /\ ~unLast.read.ok) =>
             (unLast.short.tag = "Err" /\ unLast.short.err = unLast.read.err)
        /\ (unLast.open.ok /\ unLast.read.ok) =>
             (unLast.short.tag = "Ok" /\ unLast.short.s = unLast.read.appended)

\* C19 witness: the open succeeded and the read failed after reading a part.
C19_Witness ==
    /\ unLast.called
    /\ unLast.open.ok
    /\ ~unLast.read.ok
    /\ unLast.read.appended # <<>>
    /\ unLast.verbose = ErrIo(unLast.read.err)

(***************************************************************************)
(* Claims about a failed withdraw.                                         *)
(***************************************************************************)
\* C20: a withdraw that fails (amount <= 0 or amount > balance) leaves the
\* balance, the account number and the owner as they were, so that
\* get_balance returns afterwards what it returned before.
C20_FailedWithdrawFrame ==
    (/\ bankLast.op = "withdraw"
     /\ \/ bankLast.ret # "Ok"
        \/ FLe(bankLast.amount, Zero)
        \/ FGt(bankLast.amount, bankLast.before.balance)) =>
        /\ bankLast.ret # "Ok"
        /\ account.balance = bankLast.before.balance
        /\ account.account_number = bankLast.before.account_number
        /\ account.owner = bankLast.before.owner
        /\ get_balance(account) = get_balance(bankLast.before)

\* C20 witness: a withdraw of more than a positive balance has failed.
C20_Witness ==
    /\ bankLast.op = "withdraw"
    /\ bankLast.ret = "Err: Insufficient funds"
    /\ FGt(bankLast.before.balance, Zero)
    /\ IsFinite(bankLast.amount)
    /\ account = bankLast.before

(***************************************************************************)
(* Claims about single Database calls.                                     *)
(***************************************************************************)
\* the call a step has appended to dbHist
NewCall == dbHist'[Len(dbHist')]

\* what a step that makes a Database call does to the connected flag, and
\* what the call returns
DbCallEffect ==
    Len(dbHist') = Len(dbHist) + 1 =>
        /\ (NewCall.op = "disconnect" /\ ~db.connected) =>
             (NewCall.ret = "Err: Already disconnected" /\ ~db'.connected)
        /\ NewCall.op = "connect" => (NewCall.ret = "Ok" /\ db'.connected)
        /\ NewCall.op = "query" => db'.connected = db.connected
        /\ (NewCall.op = "query" /\ ~db.connected) =>
             NewCall.ret = "Err: Not connected to database"

\* C21: disconnect on a database that is not connected returns
\* Err("Already disconnected") and leaves it not connected; connect always
\* returns Ok and leaves it connected, also when it was connected; query
\* never changes the flag, and a query on a database that is not connected
\* reports "Not connected to database" even when the sql is empty.
C21_DbCallEffect == [][DbCallEffect]_vars

\* C21 witness: an empty query before any connect, two connects in a row,
\* then two disconnects in a row, the second one refused.
C21_Witness ==
    /\ example = "database"
    /\ Len(dbHist) = 5
    /\ [i \in 1..5 |-> dbHist[i].op]
         = <<"query", "connect", "connect", "disconnect", "disconnect">>
    /\ dbHist[1].sql = ""
    /\ [i \in 1..5 |-> dbHist[i].ret]
         = <<"Err: Not connected to database", "Ok", "Ok", "Ok",
             "Err: Already disconnected">>
    /\ ~db.connected

====
